---- MODULE Spec2Model ----
(***************************************************************************)
(* Model of conveertaion.py: a polling loop that watches a conversation    *)
(* provider for newly completed conversations, summarises each with a      *)
(* generative-text API, mails the summary to a fixed recipient and appends *)
(* audit lines to conversation_emails.log.                                 *)
(*                                                                         *)
(* Text that the code inspects character by character (addresses, the      *)
(* generative response, transcript messages) is a sequence of one-character*)
(* strings.  Text that the code only builds and passes on (log and detail  *)
(* literals, exception messages) is a sequence of longer chunks.           *)
(***************************************************************************)
EXTENDS Integers, Sequences, FiniteSets, TLC

\* ------------------------------------------------------------------------
\* Bounds of the model
\* ------------------------------------------------------------------------
\* conversations the provider creates during one run
NumConvs == 2
\* conversations one run processes before the model stops following it
MaxProcessed == 2
\* how many conversations beyond the bootstrap page the listing may hold
BootExtra == 1

\* ------------------------------------------------------------------------
\* Program constants
\* ------------------------------------------------------------------------
\* stop_after_attempt(3) of both retry decorators
MaxAttempts == 3
\* get_last_conversation_id: fetch_conversations(page_size=10)
BootPageSize == 10
\* monitor_new_conversations: fetch_conversations(page_size=1)
PollPageSize == 1

\* Python's None where a text is expected (no text equals it)
None == << "<None>" >>
\* last_conversation_id = None (conversation ids are 1, 2, ...)
NoId == 0

\* ------------------------------------------------------------------------
\* Characters
\* ------------------------------------------------------------------------
LowerSeq == << "a","b","c","d","e","f","g","h","i","j","k","l","m",
               "n","o","p","q","r","s","t","u","v","w","x","y","z" >>
UpperSeq == << "A","B","C","D","E","F","G","H","I","J","K","L","M",
               "N","O","P","Q","R","S","T","U","V","W","X","Y","Z" >>
Lower == { LowerSeq[i] : i \in 1..26 }
Upper == { UpperSeq[i] : i \in 1..26 }
Digit == { "0","1","2","3","4","5","6","7","8","9" }
Alpha == Lower \cup Upper
\* [a-zA-Z0-9._%+-]
LocalChars == Alpha \cup Digit \cup { ".", "_", "%", "+", "-" }
\* [a-zA-Z0-9.-]
DomainChars == Alpha \cup Digit \cup { ".", "-" }
\* \w
WordChars == Alpha \cup Digit \cup { "_" }
\* [A-Z|a-z]
TldCharsLoose == Alpha \cup { "|" }
\* what str.strip() removes
Whitespace == { " ", "\t", "\n", "\r" }

\* str.lower() on one character
ToLower(c) == IF c \in Upper
              THEN LowerSeq[CHOOSE i \in 1..26 : UpperSeq[i] = c]
              ELSE c

\* str.lower()
lower(s) == [ i \in 1..Len(s) |-> ToLower(s[i]) ]

\* s[a..b] (1-based, inclusive), empty when a > b
Slice(s, a, b) == IF a > b THEN << >> ELSE SubSeq(s, a, b)

\* str.strip()
strip(s) ==
    LET keep == { i \in 1..Len(s) : s[i] \notin Whitespace }
    IN  IF keep = {} THEN << >>
        ELSE LET a == CHOOSE i \in keep : \A j \in keep : i <= j
                 b == CHOOSE i \in keep : \A j \in keep : i >= j
             IN  SubSeq(s, a, b)

\* str.startswith(p)
startswith(s, p) == Len(s) >= Len(p) /\ SubSeq(s, 1, Len(p)) = p

\* str.split('\n'): the pieces between newlines (always at least one piece)
RECURSIVE split_lines(_)
split_lines(s) ==
    LET nl == { i \in 1..Len(s) : s[i] = "\n" }
    IN  IF nl = {} THEN << s >>
        ELSE LET k == CHOOSE i \in nl : \A j \in nl : i <= j
             IN  << Slice(s, 1, k - 1) >> \o split_lines(Slice(s, k + 1, Len(s)))

\* '\n'.join(lines)
RECURSIVE join_lines(_)
join_lines(lines) ==
    IF Len(lines) = 0 THEN << >>
    ELSE IF Len(lines) = 1 THEN lines[1]
    ELSE lines[1] \o << "\n" >> \o join_lines(Tail(lines))

\* ------------------------------------------------------------------------
\* validate_email
\* ------------------------------------------------------------------------
\* re.match(r'^[a-zA-Z0-9._%+-]+@[a-zA-Z0-9.-]+\.[a-zA-Z]{2,}$', email):
\* a split local '@' domain '.' tld exists; '$' also matches just before one
\* trailing newline.
EmailPatternMatches(s) ==
    LET n == Len(s)
        ends == { n } \cup (IF n > 0 /\ s[n] = "\n" THEN { n - 1 } ELSE {})
    IN  \E e \in ends : \E at \in 2..e : \E dot \in (at + 2)..e :
            /\ s[at] = "@"
            /\ \A k \in 1..(at - 1) : s[k] \in LocalChars
            /\ \A k \in (at + 1)..(dot - 1) : s[k] \in DomainChars
            /\ s[dot] = "."
            /\ e - dot >= 2
            /\ \A k \in (dot + 1)..e : s[k] \in Alpha

validate_email(email) ==
    IF email = None \/ email = << >> THEN FALSE
    ELSE EmailPatternMatches(email)

\* ------------------------------------------------------------------------
\* lowercase_gemini_response
\* ------------------------------------------------------------------------
EmailPrefix == << "E","m","a","i","l",":" >>
NoneWord == << "N","o","n","e" >>

\* mutant: an address that fails validation is replaced by None
lowercase_line_nulling(line) ==
    IF startswith(line, EmailPrefix)
    THEN LET email == strip(Slice(line, Len(EmailPrefix) + 1, Len(line)))
         IN  IF email # << >> /\ email # NoneWord /\ validate_email(email)
             THEN EmailPrefix \o << " " >> \o lower(email)
             ELSE EmailPrefix \o << " " >> \o NoneWord
    ELSE line

\* mutant: every line is lowercased
lowercase_line_every(line) == lower(line)

\* one line of the loop body at lines 71-74
lowercase_line(line) ==
    IF startswith(line, EmailPrefix)
    THEN LET email == strip(Slice(line, Len(EmailPrefix) + 1, Len(line)))
         IN  IF email # << >> /\ email # NoneWord /\ validate_email(email)
             THEN EmailPrefix \o << " " >> \o lower(email)
             ELSE line
    ELSE line

lowercase_gemini_response(gemini_response) ==
    IF gemini_response = None \/ gemini_response = << >> THEN gemini_response
    ELSE LET lines == split_lines(gemini_response)
         IN  join_lines([ i \in 1..Len(lines) |-> lowercase_line(lines[i]) ])

\* ------------------------------------------------------------------------
\* extract_customer_email
\* ------------------------------------------------------------------------
IsWordAt(s, i) == i \in 1..Len(s) /\ s[i] \in WordChars

\* \b between positions i-1 and i
WordBoundary(s, i) == IsWordAt(s, i - 1) # IsWordAt(s, i)

\* the matches <<start, dot, end>> of
\* r'\b[A-Za-z0-9._%+-]+@[A-Za-z0-9.-]+\.[A-Z|a-z]{2,}\b' in s
EmailTokenMatches(s) ==
    { m \in (1..Len(s)) \X (1..Len(s)) \X (1..Len(s)) :
        LET st == m[1]
            dot == m[2]
            e == m[3]
        IN  /\ WordBoundary(s, st)
            /\ \E at \in (st + 1)..(dot - 2) :
                  /\ s[at] = "@"
                  /\ \A k \in st..(at - 1) : s[k] \in LocalChars
                  /\ \A k \in (at + 1)..(dot - 1) : s[k] \in DomainChars
            /\ s[dot] = "."
            /\ e - dot >= 2
            /\ \A k \in (dot + 1)..e : s[k] \in TldCharsLoose
            /\ WordBoundary(s, e + 1) }

\* email_pattern.search(message).group(0): the leftmost match, each greedy
\* quantifier as long as it can be; None when nothing matches
email_pattern_search(s) ==
    LET ms == EmailTokenMatches(s)
    IN  IF ms = {} THEN None
        ELSE LET st == CHOOSE a \in { m[1] : m \in ms } :
                            \A m \in ms : a <= m[1]
                 dot == CHOOSE d \in { m[2] : m \in { x \in ms : x[1] = st } } :
                            \A m \in ms : m[1] = st => d >= m[2]
                 e == CHOOSE z \in { m[3] : m \in { x \in ms : x[1] = st /\ x[2] = dot } } :
                            \A m \in ms : (m[1] = st /\ m[2] = dot) => z >= m[3]
             IN  SubSeq(s, st, e)

\* the loop at lines 136-141 from entry i on; a message of None makes
\* email_pattern.search raise TypeError, which line 144 turns into None
RECURSIVE transcript_email(_, _)
transcript_email(transcript, i) ==
    IF i > Len(transcript) THEN None
    ELSE IF transcript[i].message = None THEN None
    ELSE LET found == email_pattern_search(transcript[i].message)
         IN  IF found # None /\ validate_email(found) THEN lower(found)
             ELSE transcript_email(transcript, i + 1)

extract_customer_email(conversation_data) ==
    LET email == conversation_data.client_email
    IN  IF email # None /\ email # << >> /\ validate_email(email)
        THEN lower(email)
        ELSE transcript_email(conversation_data.transcript, 1)

\* ------------------------------------------------------------------------
\* Conversations held by the provider
\* ------------------------------------------------------------------------
Entry(role, message) == [ role |-> role, message |-> message ]

\* the payload of a conversation, by its id
ConvData(c) ==
    CASE c % 4 = 1 ->
           [ client_email |-> << "J","o","@","T",".","i","o" >>,
             transcript |-> << Entry("agent", << "h","i" >>),
                               Entry("user", << "a","@","b",".","c","o" >>) >> ]
      [] c % 4 = 2 ->
           [ client_email |-> None, transcript |-> << >> ]
      [] c % 4 = 3 ->
           [ client_email |-> None,
             transcript |-> << Entry("agent", << "h","i" >>),
                               Entry("user", << "m","e"," ","X","@","y",".","d","e","." >>) >> ]
      [] OTHER ->
           [ client_email |-> << "n","o","@","x" >>,
             transcript |-> << Entry("agent", None),
                               Entry("user", << "k","@","q",".","u","k" >>) >> ]

\* ------------------------------------------------------------------------
\* State
\* ------------------------------------------------------------------------
VARIABLES
    env,                   \* the four required configuration values (lines 25-28)
    cstate,                \* provider: the state of each conversation id
    pc,                    \* where the process is
    last_conversation_id,  \* monitor_new_conversations: the last seen id
    conversation_id,       \* monitor_new_conversations: the newest listed id
    conversation_details,  \* monitor_new_conversations: the fetched detail
    result,                \* what process_conversation returned
    gem,                   \* the last send_to_gemini call and what it did
    mail,                  \* the last send_email call and what it did
    log_file,              \* conversation_emails.log, the lines appended
    cyc,                   \* history: what the current cycle started from and saw
    past,                  \* history: the ids last_conversation_id has held before
    hist,                  \* history: what bootstrap adopted, what the loop passed over
    net,                   \* history: which outside services were ever called
    args                   \* the arguments of a function applied on its own

vars == << env, cstate, pc, last_conversation_id, conversation_id,
           conversation_details, result, gem, mail, log_file, cyc, past, hist, net, args >>

\* a configuration value: unset, set to the empty string, or set
EnvValues == { "unset", "empty", "set" }
EnvKeys == { "ELEVEN_LABS_API_KEY", "GEMINI_API_KEY", "SMTP_EMAIL", "SMTP_APP_PASSWORD" }
\* Python truthiness of a configuration value
Truthy(v) == v = "set"

\* ------------------------------------------------------------------------
\* Conversation Fetcher
\* ------------------------------------------------------------------------
ConvIds == DOMAIN cstate
Listed(c) == cstate[c] \in { "in-progress", "done" }

\* the provider's listing, most recent (highest id) first
RECURSIVE ListingFrom(_)
ListingFrom(c) ==
    IF c < 1 THEN << >>
    ELSE (IF Listed(c) THEN << c >> ELSE << >>) \o ListingFrom(c - 1)

Listing == ListingFrom(Cardinality(ConvIds))

\* mutant: a page holds the oldest conversations of the listing
Take_oldest(s, n) == IF Len(s) <= n THEN s ELSE SubSeq(s, Len(s) - n + 1, Len(s))

\* params = {"page_size": page_size}: the first page of the listing
Take(s, n) == IF Len(s) <= n THEN s ELSE SubSeq(s, 1, n)

\* what the HTTP GET of the listing can do
ListOutcomes == { "ok", "ok_without_key", "transport_error", "http_error" }
\* what the HTTP GET of one conversation can do
DetailOutcomes == { "ok", "transport_error", "http_error" }

NoList == [ none |-> TRUE, has_key |-> FALSE, conversations |-> << >>, raised |-> FALSE ]

\* mutant: the RequestException is not caught
fetch_conversations_uncaught(outcome, page_size) ==
    IF outcome \in { "transport_error", "http_error" }
    THEN [ NoList EXCEPT !.raised = TRUE ]
    ELSE [ none |-> FALSE, has_key |-> outcome = "ok",
           conversations |-> IF outcome = "ok" THEN Take(Listing, page_size) ELSE << >>,
           raised |-> FALSE ]

fetch_conversations(outcome, page_size) ==
    IF outcome \in { "transport_error", "http_error" }
    THEN NoList
    ELSE [ none |-> FALSE, has_key |-> outcome = "ok",
           conversations |-> IF outcome = "ok" THEN Take(Listing, page_size) ELSE << >>,
           raised |-> FALSE ]

NoDetails == [ none |-> TRUE, id |-> NoId, status |-> "Unknown", raised |-> FALSE ]

\* a conversation the provider does not hold answers 404
fetch_conversation_details(outcome, c) ==
    IF outcome # "ok" \/ c \notin ConvIds \/ ~Listed(c)
    THEN NoDetails
    ELSE [ none |-> FALSE, id |-> c, status |-> cstate[c], raised |-> FALSE ]

\* conversation_details.get("transcript", []) and the metadata email
DetailsData(d) == ConvData(d.id)

\* ------------------------------------------------------------------------
\* Summary Generator: send_to_gemini
\* ------------------------------------------------------------------------
\* a response text of the shape the prompt asks for
GeminiText == << "E","m","a","i","l",":"," ","J","o","@","T",".","i","o","\n",
                 "S","u","m","m","a","r","y",":"," ","O","k" >>

\* what one model.generate_content(prompt) call can do: raise, answer with
\* an empty text, or answer with a text
GeminiOutcomes == { "raise", "empty", "text" }
\* what the provider would do on each of the attempts
GeminiPlans == [ 1..MaxAttempts -> GeminiOutcomes ]

ResponseText(o) ==
    IF o = "text" THEN GeminiText ELSE << >>

\* the function body, lines 156-193: every exception is caught at line 190
send_to_gemini_body(transcript, outcome) ==
    IF transcript = << >>
    THEN [ raised |-> FALSE, value |-> None, called |-> FALSE ]
    ELSE IF outcome = "raise"
    THEN [ raised |-> FALSE, value |-> None, called |-> TRUE ]
    ELSE IF ResponseText(outcome) # << >>
    THEN [ raised |-> FALSE, value |-> lowercase_gemini_response(ResponseText(outcome)),
           called |-> TRUE ]
    ELSE [ raised |-> FALSE, value |-> None, called |-> TRUE ]

\* the retry decorator, lines 148-153: call the body again while it raises,
\* up to MaxAttempts calls; after the last one the exception leaves
RECURSIVE send_to_gemini_from(_, _, _, _)
send_to_gemini_from(transcript, plan, attempt, calls) ==
    LET r == send_to_gemini_body(transcript, plan[attempt])
        n == calls + (IF r.called THEN 1 ELSE 0)
    IN  IF r.raised /\ attempt < MaxAttempts
        THEN send_to_gemini_from(transcript, plan, attempt + 1, n)
        ELSE [ called |-> TRUE, value |-> r.value, raised |-> r.raised,
               attempts |-> attempt, calls |-> n ]

send_to_gemini(transcript, plan) == send_to_gemini_from(transcript, plan, 1, 0)

NoGem == [ called |-> FALSE, value |-> None, raised |-> FALSE, attempts |-> 0, calls |-> 0 ]

\* ------------------------------------------------------------------------
\* Notifier: send_email
\* ------------------------------------------------------------------------
\* where the SMTP session of one attempt fails, if it does
SmtpFaults == { "none", "connect", "starttls", "auth", "send" }
\* what the SMTP server would do on each of the attempts, and whether QUIT fails
SmtpPlans == [ faults : [ 1..MaxAttempts -> SmtpFaults ], quit_fails : BOOLEAN ]

\* the class of the exception a fault raises
smtp_exception(fault) ==
    CASE fault = "connect" -> "ConnectionError"
      [] fault = "starttls" -> "SMTPException"
      [] fault = "auth" -> "SMTPAuthenticationError"
      [] fault = "send" -> "SMTPException"
      [] OTHER -> "none"

\* str(e)
exception_text(fault) ==
    CASE fault = "connect" -> << "[Errno 111] Connection refused" >>
      [] fault = "starttls" -> << "STARTTLS extension not supported by server." >>
      [] fault = "auth" -> << "(535, b'Username and Password not accepted')" >>
      [] fault = "send" -> << "(550, b'Recipient address rejected')" >>
      [] OTHER -> << >>

\* retry_if_exception_type((smtplib.SMTPException, ConnectionError)), line 198
\* (SMTPAuthenticationError is an SMTPException)
RetriedByDecorator(exc) ==
    exc \in { "SMTPException", "SMTPAuthenticationError", "ConnectionError" }

\* mutant: the address is not validated
send_email_precheck_no_validation(to_email) ==
    IF ~Truthy(env["SMTP_EMAIL"]) \/ ~Truthy(env["SMTP_APP_PASSWORD"])
    THEN << "Missing SMTP credentials" >>
    ELSE << >>

\* lines 206-212: the detail of the validation failure, or empty when both pass
send_email_precheck(to_email) ==
    IF ~Truthy(env["SMTP_EMAIL"]) \/ ~Truthy(env["SMTP_APP_PASSWORD"])
    THEN << "Missing SMTP credentials" >>
    ELSE IF ~validate_email(to_email)
    THEN << "Invalid email address" >>
    ELSE << >>

\* mutant: authentication failure is handled like any other exception
send_email_except_generic(fault) ==
    [ raised |-> "none", ok |-> FALSE, detail |-> exception_text(fault) ]

\* the except clauses, lines 235-242
send_email_except(fault) ==
    IF smtp_exception(fault) = "SMTPAuthenticationError"
    THEN [ raised |-> "none", ok |-> FALSE, detail |-> << "Authentication error" >> ]
    ELSE [ raised |-> "none", ok |-> FALSE, detail |-> exception_text(fault) ]

\* mutant: the connection is released on the success path only
send_email_finally_on_success(server, fault, quit_fails) ==
    [ quits |-> IF server /\ fault = "none" THEN 1 ELSE 0, raised |-> "none" ]

\* the finally clause, lines 243-248: quit if a connection was opened, and
\* swallow whatever quit raises
send_email_finally(server, fault, quit_fails) ==
    [ quits |-> IF server THEN 1 ELSE 0, raised |-> "none" ]

\* the function body, lines 203-248, on one attempt
send_email_body(to_email, summary, cid, fault, quit_fails) ==
    LET pre == send_email_precheck(to_email)
    IN  IF pre # << >>
        THEN [ raised |-> "none", ok |-> FALSE, detail |-> pre,
               tried |-> FALSE, opened |-> 0, quits |-> 0 ]
        ELSE LET server == fault # "connect"
                 h == IF fault = "none"
                      THEN [ raised |-> "none", ok |-> TRUE, detail |-> << "Success" >> ]
                      ELSE send_email_except(fault)
                 f == send_email_finally(server, fault, quit_fails)
             IN  [ raised |-> IF f.raised # "none" THEN f.raised ELSE h.raised,
                   ok |-> h.ok, detail |-> h.detail, tried |-> TRUE,
                   opened |-> IF server THEN 1 ELSE 0, quits |-> f.quits ]

\* the retry decorator, lines 195-200
RECURSIVE send_email_from(_, _, _, _, _, _)
send_email_from(to_email, summary, cid, plan, attempt, acc) ==
    LET r == send_email_body(to_email, summary, cid,
                             plan.faults[attempt], plan.quit_fails)
        acc2 == [ opened |-> acc.opened + r.opened,
                  quits |-> acc.quits + r.quits,
                  faults |-> IF r.tried THEN Append(acc.faults, plan.faults[attempt])
                             ELSE acc.faults ]
    IN  IF RetriedByDecorator(r.raised) /\ attempt < MaxAttempts
        THEN send_email_from(to_email, summary, cid, plan, attempt + 1, acc2)
        ELSE [ called |-> TRUE, ok |-> r.ok, detail |-> r.detail,
               raised |-> IF RetriedByDecorator(r.raised) THEN "RetryError" ELSE r.raised,
               attempts |-> attempt, opened |-> acc2.opened, quits |-> acc2.quits,
               faults |-> acc2.faults, to |-> to_email, id |-> cid ]

send_email(to_email, summary, cid, plan) ==
    send_email_from(to_email, summary, cid, plan, 1,
                    [ opened |-> 0, quits |-> 0, faults |-> << >> ])

NoMail == [ called |-> FALSE, ok |-> FALSE, detail |-> << >>, raised |-> "none",
            attempts |-> 0, opened |-> 0, quits |-> 0, faults |-> << >>,
            to |-> None, id |-> NoId ]

\* "ashimlugun09@gmail.com", lines 377-378
Recipient == << "a","s","h","i","m","l","u","g","u","n","0","9","@",
                "g","m","a","i","l",".","c","o","m" >>

\* ------------------------------------------------------------------------
\* display_conversation_details and process_conversation
\* ------------------------------------------------------------------------
\* the text of the details dump, lines 267-279
display_conversation_details(d) ==
    << "Conversation Details", "Status: ", d.status, "Transcript:" >>
    \o (IF DetailsData(d).transcript = << >> THEN << "No transcript available." >>
        ELSE [ i \in 1..Len(DetailsData(d).transcript) |->
                 DetailsData(d).transcript[i].role ])

NoResult == [ conversation_text |-> << >>, email |-> None, gemini_response |-> None ]

\* lines 315-334, given what send_to_gemini did
process_conversation(d, g) ==
    [ conversation_text |-> display_conversation_details(d),
      email |-> extract_customer_email(DetailsData(d)),
      gemini_response |-> g.value ]

\* ------------------------------------------------------------------------
\* get_last_conversation_id
\* ------------------------------------------------------------------------
\* the loop at lines 296-302 from position i; the detail fetches of the ids in
\* failing fail
RECURSIVE first_completed(_, _, _)
first_completed(conversations, i, failing) ==
    IF i > Len(conversations) THEN NoId
    ELSE LET d == fetch_conversation_details(
                     IF conversations[i] \in failing THEN "transport_error" ELSE "ok",
                     conversations[i])
         IN  IF ~d.none /\ d.status = "done" THEN conversations[i]
             ELSE first_completed(conversations, i + 1, failing)

\* mutant: the newest listed conversation is adopted, whatever its status
get_last_conversation_id_newest(outcome, failing) ==
    LET data == fetch_conversations(outcome, BootPageSize)
    IN  IF data.none \/ ~data.has_key \/ data.conversations = << >>
        THEN NoId
        ELSE data.conversations[1]

get_last_conversation_id(outcome, failing) ==
    LET data == fetch_conversations(outcome, BootPageSize)
    IN  IF data.none \/ ~data.has_key \/ data.conversations = << >>
        THEN NoId
        ELSE first_completed(data.conversations, 1, failing)

\* ------------------------------------------------------------------------
\* Initial state
\* ------------------------------------------------------------------------
\* a cycle's record: the last seen id and the log length it started from, what
\* the listing fetch did ("none" before it, "fail", "no_key", "empty", "ok"), the
\* newest listed id, what the detail fetch did ("none" when not made, "fail", or
\* the status it reported), the send_email calls made, the interval sleeps
\* taken since the listing fetch, the id that headed the provider's listing
\* when the fetch was answered, and the id whose detail fetch the cycle before
\* saw fail or report a status other than "done"
NoCycle == [ last0 |-> NoId, log0 |-> 0, listed |-> "none", newest |-> NoId,
             detail |-> "none", sends |-> 0, slept |-> 0, head |-> NoId,
             pending |-> NoId ]
\* what came before: the id bootstrap adopted, and the completed conversations
\* the loop passed over when it adopted a newer one
NoHist == [ boot |-> NoId, skipped |-> {} ]
NoNet == [ smtp |-> FALSE, provider |-> FALSE, gemini |-> FALSE ]
NoArgs == [ fn |-> "none" ]

\* everything the process holds before main runs
ProcessInit ==
    /\ last_conversation_id = NoId
    /\ conversation_id = NoId
    /\ conversation_details = NoDetails
    /\ result = NoResult
    /\ gem = NoGem
    /\ mail = NoMail
    /\ log_file = << >>
    /\ cyc = NoCycle
    /\ past = {}
    /\ hist = NoHist
    /\ net = NoNet

Init ==
    /\ env \in [ EnvKeys -> EnvValues ]
    /\ cstate = [ c \in 1..NumConvs |-> "unborn" ]
    /\ pc = "main"
    /\ args = NoArgs
    /\ ProcessInit

\* ------------------------------------------------------------------------
\* The provider: conversations start, complete and are deleted
\* ------------------------------------------------------------------------
\* the process is about to read the provider
ReadsProvider == pc \in { "boot", "poll", "detail" }

ProcessVars == << env, pc, last_conversation_id, conversation_id, conversation_details,
                  result, gem, mail, log_file, cyc, past, hist, net, args >>

Arrive ==
    /\ ReadsProvider
    /\ \E c \in ConvIds :
          /\ cstate[c] = "unborn"
          /\ IF c = 1 THEN TRUE ELSE cstate[c - 1] # "unborn"
          /\ cstate' = [ cstate EXCEPT ![c] = "in-progress" ]
    /\ UNCHANGED ProcessVars

Complete ==
    /\ ReadsProvider
    /\ \E c \in ConvIds :
          /\ cstate[c] = "in-progress"
          /\ cstate' = [ cstate EXCEPT ![c] = "done" ]
    /\ UNCHANGED ProcessVars

Delete ==
    /\ ReadsProvider
    /\ \E c \in ConvIds :
          /\ Listed(c)
          /\ cstate' = [ cstate EXCEPT ![c] = "deleted" ]
    /\ UNCHANGED ProcessVars

\* ------------------------------------------------------------------------
\* main and test_smtp_credentials
\* ------------------------------------------------------------------------
\* mutant: only a value that is not set at all counts as missing
missing_config_unset_only(e) == \E k \in EnvKeys : e[k] = "unset"

\* line 401: not all([...])
missing_config(e) == \E k \in EnvKeys : ~Truthy(e[k])

\* lines 401-403
Main ==
    /\ pc = "main"
    /\ pc' = IF missing_config(env) THEN "exit" ELSE "test_smtp"
    /\ UNCHANGED << env, cstate, last_conversation_id, conversation_id,
                    conversation_details, result, gem, mail, log_file, cyc, past, hist,
                    net, args >>

\* lines 80-98, by what the SMTP server does
test_smtp_credentials(outcome) == outcome = "ok"

\* lines 406-409
TestSmtp ==
    /\ pc = "test_smtp"
    /\ \E outcome \in { "ok", "auth", "other" } :
          pc' = IF test_smtp_credentials(outcome) THEN "boot" ELSE "exit"
    /\ net' = [ net EXCEPT !.smtp = TRUE ]
    /\ UNCHANGED << env, cstate, last_conversation_id, conversation_id,
                    conversation_details, result, gem, mail, log_file, cyc, past, hist, args >>

\* ------------------------------------------------------------------------
\* monitor_new_conversations
\* ------------------------------------------------------------------------
\* line 338, with the detail fetches of one of the sets in fail_sets failing
BootWith(outcomes, fail_sets) ==
    /\ pc = "boot"
    /\ \E outcome \in outcomes : \E failing \in fail_sets :
          last_conversation_id' = get_last_conversation_id(outcome, failing)
    /\ hist' = [ hist EXCEPT !.boot = last_conversation_id' ]
    /\ pc' = "poll"
    /\ net' = [ net EXCEPT !.provider = TRUE ]
    /\ UNCHANGED << env, cstate, conversation_id, conversation_details, result, gem,
                    mail, log_file, cyc, past, args >>

Boot == BootWith(ListOutcomes, SUBSET { c \in ConvIds : Listed(c) })

\* the conversations this run has processed
Processed == Cardinality({ i \in 1..Len(log_file) : log_file[i].kind = "details" })

\* what a listing fetch with this outcome shows the cycle
Observed(outcome, data) ==
    IF outcome \in { "transport_error", "http_error" } THEN "fail"
    ELSE IF outcome = "ok_without_key" THEN "no_key"
    ELSE IF data.conversations = << >> THEN "empty"
    ELSE "ok"

\* mutant: every listed id counts as new
is_unseen_always(id, last) == TRUE

\* line 365: conversation_id != last_conversation_id
is_unseen(id, last) == id # last

\* mutant: an empty listing starts the next iteration at once
after_listing_continue(data, last) ==
    IF data.none \/ ~data.has_key THEN "sleep"
    ELSE IF data.conversations = << >> THEN "poll"
    ELSE IF is_unseen(data.conversations[1], last) THEN "detail"
    ELSE "sleep"

\* lines 349-365 and 395: where the iteration goes once the listing is in hand
after_listing(data, last) ==
    IF data.none \/ ~data.has_key THEN "sleep"
    ELSE IF data.conversations = << >> THEN "sleep"
    ELSE IF is_unseen(data.conversations[1], last) THEN "detail"
    ELSE "sleep"

\* lines 348-365: fetch the newest listed conversation and compare its id
Poll ==
    /\ pc = "poll"
    /\ Processed < MaxProcessed
    /\ \E outcome \in ListOutcomes :
          LET data == fetch_conversations(outcome, PollPageSize)
              start == [ NoCycle EXCEPT !.last0 = last_conversation_id,
                                        !.log0 = Len(log_file),
                                        !.listed = Observed(outcome, data),
                                        !.head = IF Observed(outcome, data) = "ok"
                                                 THEN Listing[1] ELSE NoId,
                                        !.pending = IF cyc.detail \notin { "none", "done" }
                                                    THEN cyc.newest ELSE NoId ]
          IN  IF data.raised
              THEN /\ pc' = "raised"
                   /\ cyc' = start
                   /\ UNCHANGED conversation_id
              ELSE IF data.none \/ ~data.has_key \/ data.conversations = << >>
              THEN /\ pc' = after_listing(data, last_conversation_id)
                   /\ cyc' = start
                   /\ UNCHANGED conversation_id
              ELSE /\ conversation_id' = data.conversations[1]
                   /\ cyc' = [ start EXCEPT !.newest = data.conversations[1] ]
                   /\ pc' = after_listing(data, last_conversation_id)
    /\ net' = [ net EXCEPT !.provider = TRUE ]
    /\ UNCHANGED << env, cstate, last_conversation_id, conversation_details, result,
                    gem, mail, log_file, past, hist, args >>

\* mutant: the status is not looked at
is_new_completed_any_status(d) == ~d.none

\* mutant: no conversation counts as completed
is_new_completed_never(d) == FALSE

\* line 367
is_new_completed(d) == ~d.none /\ d.status = "done"

\* the completed conversations older than c and newer than the last seen id
\* that this run has not processed: the ones an advance to c passes over
PassedOver(c) ==
    { x \in ConvIds : /\ x < c
                      /\ x > last_conversation_id
                      /\ cstate[x] = "done"
                      /\ \A i \in 1..Len(log_file) : log_file[i].id # x }

\* lines 366-370: fetch the detail; a completed conversation becomes the last seen
Detail ==
    /\ pc = "detail"
    /\ \E outcome \in DetailOutcomes :
          LET d == fetch_conversation_details(outcome, conversation_id)
              seen == [ cyc EXCEPT !.detail = IF outcome # "ok" \/ d.none THEN "fail"
                                              ELSE d.status ]
          IN  IF d.raised
              THEN /\ pc' = "raised"
                   /\ cyc' = seen
                   /\ UNCHANGED << last_conversation_id, conversation_details, past, hist >>
              ELSE IF is_new_completed(d)
              THEN /\ last_conversation_id' = conversation_id
                   /\ past' = past \cup ({ last_conversation_id } \ { NoId })
                   /\ hist' = [ hist EXCEPT !.skipped = @ \cup PassedOver(conversation_id) ]
                   /\ conversation_details' = d
                   /\ cyc' = seen
                   /\ pc' = "process"
              ELSE /\ cyc' = seen
                   /\ pc' = "sleep"
                   /\ UNCHANGED << last_conversation_id, conversation_details, past, hist >>
    /\ UNCHANGED << env, cstate, conversation_id, result, gem, mail, log_file, net, args >>

\* line 372: process_conversation
Process ==
    /\ pc = "process"
    /\ \E g \in LET transcript == DetailsData(conversation_details).transcript
                 IN  IF transcript # << >>
                     THEN { send_to_gemini(transcript, plan) : plan \in GeminiPlans }
                     ELSE { NoGem } :
              /\ gem' = g
              /\ result' = process_conversation(conversation_details, g)
              /\ net' = [ net EXCEPT !.gemini = @ \/ g.calls > 0 ]
              /\ pc' = IF g.raised THEN "raised" ELSE "send"
    /\ UNCHANGED << env, cstate, last_conversation_id, conversation_id,
                    conversation_details, mail, log_file, cyc, past, hist, args >>

LogLine(kind, id, text) == [ kind |-> kind, id |-> id, text |-> text ]

\* mutant: a summary is mailed whether or not one was produced
has_summary_to_send_always(gemini_response) == TRUE

\* line 374: if gemini_response
has_summary_to_send(gemini_response) ==
    gemini_response # None /\ gemini_response # << >>

\* lines 374-384: mail the summary if there is one, and log the outcome
Send ==
    /\ pc = "send"
    /\ IF has_summary_to_send(result.gemini_response)
       THEN \E m \in { send_email(Recipient, result.gemini_response, conversation_id, plan) :
                         plan \in SmtpPlans } :
                  /\ mail' = m
                  /\ net' = [ net EXCEPT !.smtp = @ \/ Len(m.faults) > 0 ]
                  /\ cyc' = [ cyc EXCEPT !.sends = @ + 1 ]
                  /\ IF m.raised # "none"
                     THEN pc' = "raised" /\ UNCHANGED log_file
                     ELSE /\ pc' = "log"
                          /\ log_file' = Append(log_file,
                                LogLine("status", conversation_id,
                                        IF m.ok THEN << "Success" >>
                                        ELSE << "Failed - " >> \o m.detail))
       ELSE /\ pc' = "log"
            /\ UNCHANGED << mail, net, cyc, log_file >>
    /\ UNCHANGED << env, cstate, last_conversation_id, conversation_id,
                    conversation_details, result, gem, past, hist, args >>

\* mutant: the summary is written before the details dump
audit_lines_summary_first(id, r) ==
    (IF r.email # None /\ r.email # << >>
     THEN << LogLine("email", id, r.email) >> ELSE << >>)
    \o (IF r.gemini_response # None /\ r.gemini_response # << >>
        THEN << LogLine("summary", id, r.gemini_response) >> ELSE << >>)
    \o << LogLine("details", id, r.conversation_text) >>

\* lines 386-393: the email line, the details dump, the summary
audit_lines(id, r) ==
    (IF r.email # None /\ r.email # << >>
     THEN << LogLine("email", id, r.email) >> ELSE << >>)
    \o << LogLine("details", id, r.conversation_text) >>
    \o (IF r.gemini_response # None /\ r.gemini_response # << >>
        THEN << LogLine("summary", id, r.gemini_response) >> ELSE << >>)

\* lines 386-393: append the audit lines of the processed conversation
Log ==
    /\ pc = "log"
    /\ log_file' = log_file \o audit_lines(conversation_id, result)
    /\ pc' = "sleep"
    /\ UNCHANGED << env, cstate, last_conversation_id, conversation_id,
                    conversation_details, result, gem, mail, cyc, past, hist, net, args >>

\* lines 352, 359, 395: time.sleep, then the next iteration with fresh locals
Sleep ==
    /\ pc = "sleep"
    /\ pc' = "poll"
    /\ conversation_id' = NoId
    /\ conversation_details' = NoDetails
    /\ result' = NoResult
    /\ gem' = NoGem
    /\ mail' = NoMail
    /\ cyc' = [ cyc EXCEPT !.slept = @ + 1 ]
    /\ UNCHANGED << env, cstate, last_conversation_id, log_file, past, hist, net, args >>

Next ==
    \/ Arrive \/ Complete \/ Delete
    \/ Main \/ TestSmtp \/ Boot
    \/ Poll \/ Detail \/ Process \/ Send \/ Log \/ Sleep

Spec == Init /\ [][Next]_vars

\* ------------------------------------------------------------------------
\* send_to_gemini applied on its own
\* ------------------------------------------------------------------------
AllSet == [ k \in EnvKeys |-> "set" ]

\* the transcripts of the conversations of ConvData
Transcripts == { ConvData(c).transcript : c \in 1..4 }

InitGemini ==
    /\ env = AllSet
    /\ cstate = [ c \in 1..NumConvs |-> "unborn" ]
    /\ pc = "call"
    /\ args \in [ fn : { "send_to_gemini" }, transcript : Transcripts, plan : GeminiPlans ]
    /\ ProcessInit

CallSendToGemini ==
    /\ pc = "call"
    /\ args.fn = "send_to_gemini"
    /\ gem' = send_to_gemini(args.transcript, args.plan)
    /\ pc' = IF gem'.raised THEN "raised" ELSE "returned"
    /\ UNCHANGED << env, cstate, last_conversation_id, conversation_id,
                    conversation_details, result, mail, log_file, cyc, past, hist, net, args >>

SpecGemini == InitGemini /\ [][CallSendToGemini]_vars

\* ------------------------------------------------------------------------
\* send_email applied on its own
\* ------------------------------------------------------------------------
\* target addresses: the fixed recipient, one valid and four invalid ones
TestAddresses ==
    { Recipient,
      << "A","@","b",".","c","o" >>,
      << "a","@","b" >>,
      << "a"," ","b","@","c",".","d","e" >>,
      << >>,
      None }

InitSend ==
    /\ env \in { e \in [ EnvKeys -> EnvValues ] :
                   e["ELEVEN_LABS_API_KEY"] = "set" /\ e["GEMINI_API_KEY"] = "set" }
    /\ cstate = [ c \in 1..NumConvs |-> "unborn" ]
    /\ pc = "call"
    /\ args \in [ fn : { "send_email" }, to_email : TestAddresses,
                  summary : { lowercase_gemini_response(GeminiText) },
                  id : { 1 }, plan : SmtpPlans ]
    /\ ProcessInit

CallSendEmail ==
    /\ pc = "call"
    /\ args.fn = "send_email"
    /\ mail' = send_email(args.to_email, args.summary, args.id, args.plan)
    /\ pc' = IF mail'.raised # "none" THEN "raised" ELSE "returned"
    /\ UNCHANGED << env, cstate, last_conversation_id, conversation_id,
                    conversation_details, result, gem, log_file, cyc, past, hist, net, args >>

SpecSend == InitSend /\ [][CallSendEmail]_vars

\* ------------------------------------------------------------------------
\* get_last_conversation_id applied on its own
\* ------------------------------------------------------------------------
\* a listing of up to BootPageSize + BootExtra conversations, each in progress
\* or completed, and at most one conversation whose detail fetch fails
InitBoot ==
    /\ env = AllSet
    /\ \E n \in 0..(BootPageSize + BootExtra) :
          /\ cstate \in [ 1..n -> { "in-progress", "done" } ]
          /\ args \in [ fn : { "get_last_conversation_id" },
                        outcome : ListOutcomes,
                        failing : { {} } \cup { { c } : c \in 1..n } ]
    /\ pc = "boot"
    /\ ProcessInit

BootAlone == BootWith({ args.outcome }, { args.failing })

SpecBoot == InitBoot /\ [][BootAlone]_vars

\* ------------------------------------------------------------------------
\* lowercase_gemini_response applied on its own
\* ------------------------------------------------------------------------
\* what follows "Email:" on a line: whitespace, an address, whitespace
EmailGaps == { << >>, << " " >>, << " ", " " >> }
EmailTrailers == { << >>, << " " >>, << "\r" >> }
ResponseAddresses ==
    { << "J","o","@","T",".","i","o" >>,
      << "j","o","@","t",".","i","o" >>,
      << "n","o","@","x" >>,
      << "A"," ","b","@","c",".","d","e" >>,
      NoneWord,
      << >> }
EmailLines ==
    { EmailPrefix \o gap \o a \o t :
        gap \in EmailGaps, a \in ResponseAddresses, t \in EmailTrailers }
\* lines that do not start with "Email:"
OtherLines ==
    { << "S","u","m","m","a","r","y",":"," ","O","k" >>,
      << "e","m","a","i","l",":"," ","A","@","b",".","c","o" >>,
      << " ","E","m","a","i","l",":"," ","A","@","b",".","c","o" >>,
      << >> }
\* responses of one or two lines, and no response at all
Responses ==
    { None, << >> }
    \cup EmailLines
    \cup { join_lines(<< e, o >>) : e \in EmailLines, o \in OtherLines }
    \cup { join_lines(<< o, e >>) : o \in OtherLines, e \in EmailLines }
    \cup { join_lines(<< o, o >>) : o \in OtherLines }

InitLower ==
    /\ env = AllSet
    /\ cstate = [ c \in 1..NumConvs |-> "unborn" ]
    /\ pc = "call"
    /\ args \in [ fn : { "lowercase_gemini_response" }, response : Responses ]
    /\ ProcessInit

\* lines 182-185: what send_to_gemini returns for this response text
CallLowercase ==
    /\ pc = "call"
    /\ args.fn = "lowercase_gemini_response"
    /\ gem' = [ NoGem EXCEPT !.called = TRUE,
                             !.value = lowercase_gemini_response(args.response) ]
    /\ pc' = "returned"
    /\ UNCHANGED << env, cstate, last_conversation_id, conversation_id,
                    conversation_details, result, mail, log_file, cyc, past, hist,
                    net, args >>

SpecLower == InitLower /\ [][CallLowercase]_vars

\* ------------------------------------------------------------------------
\* extract_customer_email applied on its own
\* ------------------------------------------------------------------------
\* the email of the call-initiation metadata: absent, empty, valid, invalid
MetadataEmails ==
    { None, << >>, << "J","o","@","T",".","i","o" >>, << "n","o","@","x" >> }
\* transcript messages: none (a tool call), no address, an address, an address
\* inside a sentence, an invalid address, and an address after a token that
\* the search pattern matches and validate_email rejects
Messages ==
    { None,
      << "h","i" >>,
      << "K","@","q",".","u","k" >>,
      << "m","e"," ","X","@","y",".","d","e","." >>,
      << "n","o","@","x" >>,
      << "x","@","y",".","c","|","d"," ","a","@","b",".","c","o" >> }
\* entries of a transcript
MaxEntries == 2
ExtractTranscripts ==
    UNION { [ 1..n -> { Entry("user", m) : m \in Messages } ] : n \in 0..MaxEntries }

InitExtract ==
    /\ env = AllSet
    /\ cstate = [ c \in 1..NumConvs |-> "unborn" ]
    /\ pc = "call"
    /\ args \in [ fn : { "extract_customer_email" },
                  data : [ client_email : MetadataEmails,
                           transcript : ExtractTranscripts ] ]
    /\ ProcessInit

\* line 318: email = extract_customer_email(conversation_details)
CallExtract ==
    /\ pc = "call"
    /\ args.fn = "extract_customer_email"
    /\ result' = [ NoResult EXCEPT !.email = extract_customer_email(args.data) ]
    /\ pc' = "returned"
    /\ UNCHANGED << env, cstate, last_conversation_id, conversation_id,
                    conversation_details, gem, mail, log_file, cyc, past, hist,
                    net, args >>

SpecExtract == InitExtract /\ [][CallExtract]_vars

\* ------------------------------------------------------------------------
\* Properties
\* ------------------------------------------------------------------------
\* the lines the current cycle has appended to the audit log
CycleLines == SubSeq(log_file, cyc.log0 + 1, Len(log_file))
CycleLinesOf(kind) == { i \in 1..Len(CycleLines) : CycleLines[i].kind = kind }

\* the cycle made no call to send_email, wrote no line and kept the last seen id
CycleDidNothing ==
    /\ cyc.sends = 0
    /\ mail = NoMail
    /\ Len(log_file) = cyc.log0
    /\ last_conversation_id = cyc.last0

\* C1: a cycle whose newest listed conversation has the last seen id, or whose
\* newest conversation is reported with a status other than "done", never
\* enters processing: it calls send_email zero times, appends no line to the
\* audit log and leaves the last seen id as it was.
C1_IdleCycleDoesNothing ==
    (cyc.listed = "ok"
        /\ (cyc.newest = cyc.last0 \/ cyc.detail \notin { "none", "fail", "done" }))
    => (pc \in { "sleep", "poll" } /\ CycleDidNothing)

\* a cycle ends having seen again, as the newest, the conversation it processed
\* in an earlier cycle
C1_Witness ==
    /\ pc = "sleep"
    /\ cyc.listed = "ok"
    /\ cyc.newest = cyc.last0
    /\ \E i \in 1..Len(log_file) : log_file[i].id = cyc.newest

\* C2: the loop never processes a conversation whose id the last seen id has
\* already held and moved on from earlier in the run.
C2_NeverReprocessed == pc = "process" => conversation_id \notin past

\* C3: a failed listing fetch or a failed detail fetch makes the cycle go to
\* its sleep and on to the next cycle, raising nothing, with no send_email
\* call, no audit line and the last seen id unchanged.
C3_FetchFailureSkipsCycle ==
    (cyc.listed = "fail" \/ cyc.detail = "fail")
    => (pc \in { "sleep", "poll" } /\ CycleDidNothing)

\* the loop is about to start the next cycle after one whose detail fetch
\* failed, with a last seen id to keep
C3_Witness ==
    /\ pc = "poll"
    /\ cyc.detail = "fail"
    /\ last_conversation_id # NoId

\* what the provider call of attempt k gives when it does not raise
AnswerOf(outcome) ==
    IF ResponseText(outcome) # << >> THEN lowercase_gemini_response(ResponseText(outcome))
    ELSE None

\* C4: send_to_gemini calls the provider again when a call raises: the answer
\* of the first call that does not raise is returned, after exactly that many
\* calls, and None is returned after MaxAttempts calls only when all of them
\* raise.
C4_RetriesProviderCall ==
    (pc = "returned" /\ args.fn = "send_to_gemini" /\ args.transcript # << >>)
    => /\ \A k \in 1..MaxAttempts :
            ((\A j \in 1..(k - 1) : args.plan[j] = "raise") /\ args.plan[k] # "raise")
            => (gem.calls = k /\ gem.value = AnswerOf(args.plan[k]))
       /\ (\A j \in 1..MaxAttempts : args.plan[j] = "raise")
            => (gem.calls = MaxAttempts /\ gem.value = None)

\* C5: send_email tries again after an attempt that fails at connect, STARTTLS
\* or send, so a call whose first attempt fails that way and whose second
\* attempt would succeed returns (True, "Success"); a validation failure is
\* not retried.
C5_RetriesTransientFailure ==
    (pc = "returned" /\ args.fn = "send_email")
    => /\ (send_email_precheck(args.to_email) = << >>
             /\ args.plan.faults[1] \in { "connect", "starttls", "send" }
             /\ args.plan.faults[2] = "none")
          => (mail.ok /\ mail.detail = << "Success" >>)
       /\ send_email_precheck(args.to_email) # << >> => mail.attempts = 1

\* C6: a send_email call whose login fails with an authentication error makes
\* one connection attempt, returns (False, "Authentication error"), a detail no
\* other failure gives, and the cycle goes on to its log writes and its sleep.
C6_AuthenticationFailure ==
    (mail.called /\ mail.faults # << >>)
    => /\ mail.faults[Len(mail.faults)] = "auth"
          => /\ Len(mail.faults) = 1
             /\ mail.attempts = 1
             /\ ~mail.ok
             /\ mail.detail = << "Authentication error" >>
             /\ mail.raised = "none"
             /\ pc \in { "log", "sleep" }
             /\ \E i \in CycleLinesOf("status") :
                   CycleLines[i].text = << "Failed - ", "Authentication error" >>
             /\ pc = "sleep" => CycleLinesOf("details") # {}
       /\ mail.faults[Len(mail.faults)] # "auth"
          => mail.detail # << "Authentication error" >>

\* a cycle reaches its sleep after a send that failed at login
C6_Witness ==
    /\ pc = "sleep"
    /\ mail.called
    /\ mail.faults = << "auth" >>

\* the preconditions of send_email hold for the call in args
SendPreconditions ==
    /\ Truthy(env["SMTP_EMAIL"])
    /\ Truthy(env["SMTP_APP_PASSWORD"])
    /\ validate_email(args.to_email)

\* C7: send_email attempts a connection only when both SMTP credentials are
\* set and the target address passes validate_email; otherwise it returns
\* failure without a connection attempt.
C7_NoConnectionWithoutPreconditions ==
    (pc \in { "returned", "raised" } /\ args.fn = "send_email")
    => /\ (mail.opened > 0 \/ mail.faults # << >>) => SendPreconditions
       /\ ~SendPreconditions
          => (~mail.ok /\ mail.faults = << >> /\ mail.opened = 0 /\ pc = "returned")

\* send_email returned for an invalid target address with the credentials set
\* and a server that would have accepted the message
C7_Witness ==
    /\ pc = "returned"
    /\ args.fn = "send_email"
    /\ Truthy(env["SMTP_EMAIL"])
    /\ Truthy(env["SMTP_APP_PASSWORD"])
    /\ args.to_email # << >>
    /\ ~validate_email(args.to_email)
    /\ args.plan.faults[1] = "none"

\* C8: when send_email returns, every connection it opened has been quit, and
\* nothing was raised, a failure of quit included.
C8_ConnectionReleased ==
    args.fn = "send_email"
    => /\ pc # "raised"
       /\ pc = "returned" => (mail.quits = mail.opened /\ mail.raised = "none")

\* send_email returned after a login failure on a connection whose quit fails
C8_Witness ==
    /\ pc = "returned"
    /\ args.fn = "send_email"
    /\ mail.opened = 1
    /\ mail.faults = << "auth" >>
    /\ args.plan.quit_fails

\* a summary came back from the Summary Generator
SummaryProduced == result.gemini_response # None /\ result.gemini_response # << >>

\* C9: for a newly detected completed conversation send_email is called iff a
\* summary was produced; without a summary the conversation is still the new
\* last seen id and its details dump is logged, with no status line, no
\* summary line and no send_email call.
C9_EmailIffSummary ==
    (pc \in { "log", "sleep" } /\ cyc.detail = "done")
    => /\ cyc.sends = (IF SummaryProduced THEN 1 ELSE 0)
       /\ mail.called <=> SummaryProduced
       /\ ~SummaryProduced
          => /\ last_conversation_id = conversation_id
             /\ CycleLinesOf("status") = {}
             /\ CycleLinesOf("summary") = {}
             /\ pc = "sleep"
                => \E i \in CycleLinesOf("details") : CycleLines[i].id = conversation_id

\* a cycle ends for a conversation with a transcript whose provider call failed
C9_Witness ==
    /\ pc = "sleep"
    /\ cyc.detail = "done"
    /\ gem.calls > 0
    /\ ~SummaryProduced
    /\ CycleLinesOf("details") # {}

\* the first conversation of the page, in listing order, whose status is "done"
RECURSIVE FirstDone(_, _)
FirstDone(page, i) ==
    IF i > Len(page) THEN NoId
    ELSE IF cstate[page[i]] = "done" THEN page[i]
    ELSE FirstDone(page, i + 1)

\* C10: get_last_conversation_id returns the first conversation, in listing
\* order among the BootPageSize most recent, whose status is "done", and none
\* exactly when there is no such conversation or the listing fetch fails.
C10_BootstrapFirstDone ==
    (pc = "poll" /\ args.fn = "get_last_conversation_id")
    => last_conversation_id =
          (IF args.outcome = "ok" THEN FirstDone(Take(Listing, BootPageSize), 1) ELSE NoId)

\* C11: every iteration of the loop takes exactly one interval sleep after its
\* listing fetch and before the next listing fetch, whichever branch it takes:
\* none has been taken while the iteration is still at work, and exactly one
\* has been taken when the loop is back at its listing fetch.
C11_OneSleepPerIteration ==
    /\ cyc.slept \in { 0, 1 }
    /\ pc \in { "detail", "process", "send", "log", "sleep" } => cyc.slept = 0
    /\ (pc = "poll" /\ cyc.listed # "none") => cyc.slept = 1

\* the loop is back at its listing fetch after an iteration that saw an empty
\* listing and slept
C11_Witness ==
    /\ pc = "poll"
    /\ cyc.listed = "empty"
    /\ cyc.slept = 1

\* the audit lines of the cycle, the status line of Send left out
CycleAuditLines == SelectSeq(CycleLines, LAMBDA l : l.kind # "status")

\* C12: for a processed conversation the audit log receives, in this order, an
\* email line iff extract_customer_email returned an address, exactly one
\* details dump, and a summary line iff a summary was produced, all for that
\* conversation; the last seen id is the conversation's before any send_email
\* call and before any line is written.
C12_AuditOrder ==
    /\ (pc = "sleep" /\ cyc.detail = "done")
       => /\ \A i \in 1..Len(CycleLines) : CycleLines[i].id = conversation_id
          /\ [ i \in 1..Len(CycleAuditLines) |-> CycleAuditLines[i].kind ]
                = (IF extract_customer_email(DetailsData(conversation_details)) # None
                   THEN << "email" >> ELSE << >>)
                  \o << "details" >>
                  \o (IF SummaryProduced THEN << "summary" >> ELSE << >>)
    /\ (pc \in { "send", "log", "sleep" }
        /\ (cyc.sends > 0 \/ mail.called \/ Len(log_file) > cyc.log0))
       => /\ conversation_id # NoId
          /\ last_conversation_id = conversation_id

\* a cycle ends with an email line, a details dump and a summary line written
C12_Witness ==
    /\ pc = "sleep"
    /\ cyc.detail = "done"
    /\ Len(CycleAuditLines) = 3
    /\ CycleLinesOf("status") # {}

\* C13: when one of the four required configuration values is missing, main
\* returns at once: no SMTP connection is opened, no provider is called, and
\* the monitor loop is never entered.
C13_MissingConfigReturns ==
    (\E k \in EnvKeys : env[k] # "set")
    => /\ pc \in { "main", "exit" }
       /\ net = NoNet
       /\ cyc = NoCycle
       /\ hist = NoHist
       /\ last_conversation_id = NoId
       /\ log_file = << >>

\* main has returned with the SMTP password set to the empty string
C13_Witness ==
    /\ pc = "exit"
    /\ env["SMTP_APP_PASSWORD"] = "empty"
    /\ \A k \in EnvKeys \ { "SMTP_APP_PASSWORD" } : env[k] = "set"
    /\ net = NoNet

\* the lines of a response text (none for no response)
LinesOf(text) == IF text = None \/ text = << >> THEN << >> ELSE split_lines(text)
IsEmailLine(line) == startswith(line, EmailPrefix)
\* the address an "Email:" line carries
AddressOf(line) == strip(Slice(line, Len(EmailPrefix) + 1, Len(line)))
Lowered == pc = "returned" /\ args.fn = "lowercase_gemini_response"

\* C14 as stated: the returned summary text never carries an address that
\* fails validation: on every "Email:" line a valid address is returned
\* lowercased and any other address is nulled (None or nothing), and every
\* other line is returned unchanged.
C14_InvalidAddressNulled ==
    Lowered
    => LET given == LinesOf(args.response)
           back == LinesOf(gem.value)
       IN  /\ Len(back) = Len(given)
           /\ \A i \in 1..Len(given) :
                 IF IsEmailLine(given[i])
                 THEN /\ IsEmailLine(back[i])
                      /\ IF validate_email(AddressOf(given[i]))
                         THEN AddressOf(back[i]) = lower(AddressOf(given[i]))
                         ELSE AddressOf(back[i]) \in { << >>, NoneWord }
                 ELSE back[i] = given[i]

\* C14, amended: on every "Email:" line a valid address is returned
\* lowercased, as "Email: " followed by the address; a line whose address
\* fails validation is returned exactly as given, address included; every
\* other line is returned unchanged.
C14_InvalidAddressKept ==
    Lowered
    => LET given == LinesOf(args.response)
           back == LinesOf(gem.value)
       IN  /\ Len(back) = Len(given)
           /\ \A i \in 1..Len(given) :
                 IF IsEmailLine(given[i]) /\ validate_email(AddressOf(given[i]))
                 THEN back[i] = EmailPrefix \o << " " >> \o lower(AddressOf(given[i]))
                 ELSE back[i] = given[i]

\* a response whose "Email:" line carries an address that fails validation
\* has been returned with that address still on the line
C14_Witness ==
    /\ Lowered
    /\ \E i \in 1..Len(LinesOf(args.response)) :
          /\ IsEmailLine(LinesOf(args.response)[i])
          /\ AddressOf(LinesOf(args.response)[i]) \notin { << >>, NoneWord }
          /\ ~validate_email(AddressOf(LinesOf(args.response)[i]))
          /\ AddressOf(LinesOf(gem.value)[i]) = AddressOf(LinesOf(args.response)[i])

\* a text without the characters str.strip() removes, newlines kept, lowercased
Canon(text) ==
    IF text = None THEN None
    ELSE lower(SelectSeq(text, LAMBDA c : c \notin (Whitespace \ { "\n" })))

\* applying lowercase_gemini_response to what it returned changes nothing,
\* and every line that does not start with "Email:" is returned as given
IdempotentAndOtherLinesKept ==
    /\ lowercase_gemini_response(gem.value) = gem.value
    /\ Len(LinesOf(gem.value)) = Len(LinesOf(args.response))
    /\ \A i \in 1..Len(LinesOf(args.response)) :
          ~IsEmailLine(LinesOf(args.response)[i])
          => LinesOf(gem.value)[i] = LinesOf(args.response)[i]

\* C15 as stated: lowercase_gemini_response is idempotent, returns every line
\* other than an "Email:" line as given, and changes nothing but the casing
\* of characters: the returned text is the given text up to casing.
C15_OnlyCasingChanges ==
    Lowered
    => /\ IdempotentAndOtherLinesKept
       /\ gem.value # None => lower(gem.value) = lower(args.response)

\* C15, amended: lowercase_gemini_response is idempotent, returns every line
\* other than an "Email:" line as given, and on an "Email:" line changes only
\* the casing of the address and the whitespace around it: the returned text
\* is the given text up to casing and that whitespace.
C15_CasingAndSpacingChange ==
    Lowered
    => /\ IdempotentAndOtherLinesKept
       /\ Canon(gem.value) = Canon(args.response)

\* a response has been returned with the whitespace of its "Email:" line changed
C15_Witness ==
    /\ Lowered
    /\ gem.value # None
    /\ gem.value # args.response
    /\ lower(gem.value) # lower(args.response)

\* the email-like tokens of a message that pass validate_email
ValidTokens(message) ==
    IF message = None THEN {}
    ELSE { m \in EmailTokenMatches(message) : validate_email(SubSeq(message, m[1], m[3])) }

\* the first of them: the leftmost, and the longest of those
FirstValidToken(message) ==
    LET ms == ValidTokens(message)
        m == CHOOSE x \in ms : \A y \in ms : x[1] < y[1] \/ (x[1] = y[1] /\ x[3] >= y[3])
    IN  SubSeq(message, m[1], m[3])

\* the first valid email-like token of a transcript in transcript order,
\* lowercased; None when no message holds one
FirstTranscriptEmail(transcript) ==
    LET holders == { i \in 1..Len(transcript) : ValidTokens(transcript[i].message) # {} }
    IN  IF holders = {} THEN None
        ELSE lower(FirstValidToken(
                 transcript[CHOOSE i \in holders : \A j \in holders : i <= j].message))

\* C16: extract_customer_email returns the lowercased metadata email whenever
\* it is present and valid, whatever the transcript holds; otherwise the first
\* valid email-like token in transcript order; and None when neither source
\* yields a valid address.
C16_MetadataThenTranscript ==
    (pc = "returned" /\ args.fn = "extract_customer_email")
    => result.email =
          (IF validate_email(args.data.client_email)
           THEN lower(args.data.client_email)
           ELSE FirstTranscriptEmail(args.data.transcript))

\* a cycle that got a listing looks at the conversation that headed the
\* provider's listing, and at no other
InspectsNewestOnly ==
    /\ cyc.listed = "ok" => cyc.newest = cyc.head
    /\ conversation_id \in { NoId, cyc.newest }
    /\ pc \in { "detail", "process", "send", "log" } => conversation_id = cyc.newest

C18_PendingProcessedOnce ==
    /\ (pc = "sleep" /\ cyc.detail \notin { "none", "done" })
       => /\ last_conversation_id = cyc.last0
          /\ last_conversation_id # cyc.newest
          /\ Len(log_file) = cyc.log0
    /\ (pc \in { "process", "send", "log", "sleep" } /\ cyc.detail = "done")
       => /\ last_conversation_id = cyc.newest
          /\ cyc.newest # cyc.last0
    /\ (pc = "sleep" /\ cyc.detail = "done")
       => Cardinality({ i \in CycleLinesOf("details") :
                          CycleLines[i].id = cyc.newest }) = 1
    /\ (cyc.listed = "ok" /\ cyc.newest = cyc.last0)
       => /\ cyc.detail = "none"
          /\ Len(log_file) = cyc.log0

\* the conversation the cycle before saw unfinished, or failed to fetch, has
\* been processed in this cycle
C18_Witness ==
    /\ pc = "sleep"
    /\ cyc.detail = "done"
    /\ cyc.pending = cyc.newest
    /\ last_conversation_id = cyc.newest
    /\ CycleLinesOf("details") # {}

\* the log shows that conversation c was processed without a summary, or
\* with a send_email call that returned failure
FailedBefore(c) ==
    /\ \E i \in 1..Len(log_file) : log_file[i].id = c /\ log_file[i].kind = "details"
    /\ \/ \A i \in 1..Len(log_file) : log_file[i].id = c => log_file[i].kind # "summary"
       \/ \E i \in 1..Len(log_file) :
             /\ log_file[i].id = c
             /\ log_file[i].kind = "status"
             /\ log_file[i].text # << "Success" >>

\* C19: send_to_gemini and send_email are called at most once per advance,
\* and only after it; a conversation whose summary or whose send failed, and
\* that a later cycle finds to be the newest with the last seen id, is not
\* summarized, emailed or logged by that cycle.
C19_NoSecondAttempt ==
    /\ cyc.sends <= 1
    /\ pc \in { "poll", "detail", "process" } => ~gem.called /\ ~mail.called
    /\ pc = "send" => ~mail.called /\ cyc.sends = 0
    /\ (gem.called \/ mail.called) => last_conversation_id = conversation_id
    /\ (cyc.listed = "ok" /\ cyc.newest = cyc.last0 /\ FailedBefore(cyc.newest))
       => /\ ~gem.called
          /\ ~mail.called
          /\ cyc.sends = 0
          /\ cyc.detail = "none"
          /\ Len(log_file) = cyc.log0

\* a cycle ends that found a conversation whose send had failed still the
\* newest, and did nothing
C19_Witness ==
    /\ pc = "sleep"
    /\ cyc.listed = "ok"
    /\ cyc.newest = cyc.last0
    /\ \E i \in 1..Len(log_file) :
          /\ log_file[i].id = cyc.newest
          /\ log_file[i].kind = "status"
          /\ log_file[i].text # << "Success" >>

\* C20: the last seen id is none or the id of a conversation that was
\* completed when it was adopted (so is completed, or deleted, now); and as
\* long as the last seen id is the one bootstrap adopted, that conversation is
\* not summarized, emailed or logged.
C20_LastSeenCompleted ==
    /\ last_conversation_id # NoId
       => cstate[last_conversation_id] \in { "done", "deleted" }
    /\ (hist.boot # NoId /\ hist.boot \notin past)
       => /\ last_conversation_id = hist.boot
          /\ \A i \in 1..Len(log_file) : log_file[i].id # hist.boot
          /\ pc \in { "process", "send", "log" } => conversation_id # hist.boot
          /\ (gem.called \/ mail.called) => conversation_id # hist.boot

\* a cycle ends that found the conversation bootstrap adopted still the
\* newest, and did nothing
C20_Witness ==
    /\ pc = "sleep"
    /\ hist.boot # NoId
    /\ cyc.listed = "ok"
    /\ cyc.newest = hist.boot
    /\ past = {}
    /\ log_file = << >>

====
